---------------------------- MODULE Spec2Model ----------------------------
(***************************************************************************)
(* Model of frd_calculator.py: the interview (read_recipe, add_costs),     *)
(* the apportionment (check_special_cases, convert_mass_to_volume,         *)
(* calculate_recipe_prices) and the report (print_recipe_costs).           *)
(*                                                                         *)
(* Python floats are modelled as exact rationals <<n, d>> in lowest terms  *)
(* with d > 0; rounding error of binary floating point is not modelled.    *)
(* Python strings that the code inspects (ingredient names, the consent    *)
(* answer) are sequences of one-character strings.  An attribute that is   *)
(* None in Python is the empty sequence, a set attribute x is <<x>>.       *)
(* bought records the Cost of each ingredient as add_costs built it from   *)
(* the answers, which check_special_cases may later rewrite in place.      *)
(***************************************************************************)
EXTENDS Integers, Sequences, FiniteSets, TLC

VARIABLES phase, exc, good_to_go, asked, name, ingredients, idx,
          bought, output, total, calls, after_first

vars == <<phase, exc, good_to_go, asked, name, ingredients, idx,
          bought, output, total, calls, after_first>>

(***************************************************************************)
(* Numbers                                                                 *)
(***************************************************************************)
Abs(x) == IF x < 0 THEN -x ELSE x

RECURSIVE GCD(_, _)
GCD(a, b) == IF b = 0 THEN a ELSE GCD(b, a % b)

\* The float with value n/d (d # 0), in lowest terms with a positive denominator.
Rat(n, d) ==
    LET g == GCD(Abs(n), Abs(d))
        s == IF d < 0 THEN -1 ELSE 1
    IN  <<(s * n) \div g, (s * d) \div g>>

Zero == Rat(0, 1)
IsZero(a) == a[1] = 0
RAdd(a, b) == Rat(a[1] * b[2] + b[1] * a[2], a[2] * b[2])
RMul(a, b) == Rat(a[1] * b[1], a[2] * b[2])
\* a / b for b # 0 (Python raises ZeroDivisionError for b = 0; the callers test it)
RDiv(a, b) == Rat(a[1] * b[2], a[2] * b[1])
RLess(a, b) == a[1] * b[2] < b[1] * a[2]

None == <<>>
Some(x) == <<x>>
\* Python truthiness of an optional float: None and 0.0 are falsy.
Truthy(p) == p # None /\ ~IsZero(p[1])

(***************************************************************************)
(* Strings                                                                 *)
(***************************************************************************)
UpperCase == <<"A","B","C","D","E","F","G","H","I","J","K","L","M",
               "N","O","P","Q","R","S","T","U","V","W","X","Y","Z">>
LowerCase == <<"a","b","c","d","e","f","g","h","i","j","k","l","m",
               "n","o","p","q","r","s","t","u","v","w","x","y","z">>

LowerChar(c) ==
    IF \E i \in 1..26 : UpperCase[i] = c
    THEN LowerCase[CHOOSE i \in 1..26 : UpperCase[i] = c]
    ELSE c

\* str.lower()
Lower(s) == [i \in 1..Len(s) |-> LowerChar(s[i])]

\* str.strip(): drops leading and trailing whitespace
Strip(s) ==
    IF \A i \in 1..Len(s) : s[i] = " " THEN <<>>
    ELSE LET first == CHOOSE i \in 1..Len(s) :
                          s[i] # " " /\ \A j \in 1..(i-1) : s[j] = " "
             last  == CHOOSE i \in 1..Len(s) :
                          s[i] # " " /\ \A j \in (i+1)..Len(s) : s[j] = " "
         IN  SubSeq(s, first, last)

\* sub in s
Contains(sub, s) ==
    \E i \in 1..(Len(s) - Len(sub) + 1) : SubSeq(s, i, i + Len(sub) - 1) = sub

(***************************************************************************)
(* The unit registry (pint.UnitRegistry): the part of its vocabulary the   *)
(* model uses.  A string outside it raises UndefinedUnitError.             *)
(***************************************************************************)
Vocabulary == {"pounds", "ounces", "cups", "tablespoons", "count"}

\* ureg[u].dimensionality
Dimensionality(u) ==
    CASE u \in {"pounds", "ounces"}      -> "mass"
      [] u \in {"cups", "tablespoons"}   -> "volume"
      [] u = "count"                     -> "count"

\* The size of one u in the reference unit of its dimension
\* (pound = 16 ounce, cup = 16 tablespoon).
UnitSize(u) ==
    CASE u = "pounds"      -> Rat(1, 1)
      [] u = "ounces"      -> Rat(1, 16)
      [] u = "cups"        -> Rat(1, 1)
      [] u = "tablespoons" -> Rat(1, 16)
      [] u = "count"       -> Rat(1, 1)

\* (q * ureg[from]).to(to).magnitude, for units of one dimensionality
Convert(q, from, to) == RDiv(RMul(q, UnitSize(from)), UnitSize(to))

(***************************************************************************)
(* check_special_cases: the conversion rate of an ingredient name          *)
(***************************************************************************)
flour      == <<"f","l","o","u","r">>
butter     == <<"b","u","t","t","e","r">>
brownsugar == <<"b","r","o","w","n"," ","s","u","g","a","r">>
sugar      == <<"s","u","g","a","r">>
cocoa      == <<"c","o","c","o","a">>

\* ConversionRate with the "sugar" rule tested before the "brown sugar" rule
ConversionRateSugarFirst(thing) ==
    LET comparison_name == Strip(Lower(thing))
    IN  IF Contains(flour, comparison_name) THEN Rat(333, 100)
        ELSE IF butter = comparison_name THEN Rat(2, 1)
        ELSE IF Contains(sugar, comparison_name) THEN Rat(2, 1)
        ELSE IF Contains(brownsugar, comparison_name) THEN Rat(225, 100)
        ELSE IF Contains(cocoa, comparison_name) THEN Rat(355, 100)
        ELSE Rat(2, 1)

ConversionRate(thing) ==
    LET comparison_name == Strip(Lower(thing))
    IN  IF Contains(flour, comparison_name) THEN Rat(333, 100)
        ELSE IF butter = comparison_name THEN Rat(2, 1)
        ELSE IF Contains(brownsugar, comparison_name) THEN Rat(225, 100)
        ELSE IF Contains(sugar, comparison_name) THEN Rat(2, 1)
        ELSE IF Contains(cocoa, comparison_name) THEN Rat(355, 100)
        ELSE Rat(2, 1)


(***************************************************************************)
(* convert_mass_to_volume, check_special_cases and one iteration of the    *)
(* loop of calculate_recipe_prices, as functions of the Ingredient         *)
(***************************************************************************)
\* convert_mass_to_volume without its last line, cost.measure = "cups"
convert_mass_to_volume_keeping_measure(cost, rate) ==
    LET qty_in_pounds == Convert(cost.quantity, cost.measure, "pounds")
        cups == RMul(qty_in_pounds, rate)
    IN  [cost EXCEPT !.quantity = cups]

\* cost.quantity and cost.measure rewritten in place to cups
convert_mass_to_volume(cost, rate) ==
    LET qty_in_pounds == Convert(cost.quantity, cost.measure, "pounds")
        cups == RMul(qty_in_pounds, rate)
    IN  [cost EXCEPT !.quantity = cups, !.measure = "cups"]

\* SpecialCase without the second operand of the `and`: every cost in a
\* mass unit is a special case
SpecialCaseOfEveryMassCost(item) ==
    LET cost == item.cost[1]
    IN  IF cost.measure \notin Vocabulary THEN "raise"
        ELSE IF Dimensionality(cost.measure) # "mass" THEN "no"
        ELSE "yes"

\* The condition of the if of check_special_cases; "raise" when a ureg[...]
\* lookup it evaluates raises UndefinedUnitError (the right operand of the
\* `and` is evaluated only when the left one is true).
SpecialCase(item) ==
    LET cost == item.cost[1]
    IN  IF cost.measure \notin Vocabulary THEN "raise"
        ELSE IF Dimensionality(cost.measure) # "mass" THEN "no"
        ELSE IF item.measure \notin Vocabulary THEN "raise"
        ELSE IF Dimensionality(item.measure) # "mass" THEN "yes"
        ELSE "no"

check_special_cases(item) ==
    IF SpecialCase(item) = "yes"
    THEN [item EXCEPT !.cost =
             Some(convert_mass_to_volume(item.cost[1], ConversionRate(item.thing)))]
    ELSE item

\* bulk.to(item.measure): "raise" (UndefinedUnitError), "mismatch"
\* (DimensionalityError, which the loop catches) or "ok"
BulkTo(item) ==
    IF item.measure \notin Vocabulary THEN "raise"
    ELSE IF Dimensionality(item.cost[1].measure) # Dimensionality(item.measure)
         THEN "mismatch"
    ELSE "ok"

\* smaller.magnitude
Smaller(item) == Convert(item.cost[1].quantity, item.cost[1].measure, item.measure)

\* item.price after lines 157-158 (Smaller(item) is not zero)
Price(item) ==
    LET used_fraction == RDiv(item.quantity, Smaller(item))
    IN  RMul(used_fraction, item.cost[1].money)

\* One iteration of the for loop of calculate_recipe_prices on item:
\* the exception it leaves uncaught ("" for none) and the item as it is left.
Iteration(item) ==
    IF SpecialCase(item) = "raise"
    THEN [exc |-> "UndefinedUnitError", item |-> item]
    ELSE LET it == check_special_cases(item)
         IN  CASE BulkTo(it) = "raise" ->
                    [exc |-> "UndefinedUnitError", item |-> it]
               [] BulkTo(it) = "mismatch" ->
                    [exc |-> "", item |-> it]
               [] BulkTo(it) = "ok" /\ IsZero(Smaller(it)) ->
                    [exc |-> "ZeroDivisionError", item |-> it]
               [] OTHER ->
                    [exc |-> "", item |-> [it EXCEPT !.price = Some(Price(it))]]

(***************************************************************************)
(* print_recipe_costs                                                      *)
(***************************************************************************)
\* f"{x:.2f}": x rounded to a whole number of cents, ties to even
Cents(x) ==
    LET n == Abs(x[1]) * 100
        q == n \div x[2]
        r == n % x[2]
        up == 2 * r > x[2] \/ (2 * r = x[2] /\ q % 2 = 1)
        m == IF up THEN q + 1 ELSE q
    IN  IF x[1] < 0 THEN -m ELSE m

\* The line printed for one ingredient
Line(ingredient) ==
    IF Truthy(ingredient.price)
    THEN [kind |-> "price", thing |-> ingredient.thing,
          cents |-> Cents(ingredient.price[1])]
    ELSE [kind |-> "noprice", thing |-> ingredient.thing, cents |-> 0]

RECURSIVE Total(_)
Total(ings) ==
    IF ings = <<>> THEN Zero
    ELSE LET rest == Total(SubSeq(ings, 1, Len(ings) - 1))
             last == ings[Len(ings)]
         IN  IF Truthy(last.price) THEN RAdd(rest, last.price[1]) ELSE rest

(***************************************************************************)
(* Input: what the user types                                              *)
(***************************************************************************)
\* A whitespace-separated token of a quantity answer: n/d written with a
\* slash ("1/2") or without one ("3", "2.19")
Whole(n)   == [n |-> n, d |-> 1, slash |-> FALSE]
Dec(n, d)  == [n |-> n, d |-> d, slash |-> FALSE]
Frac(n, d) == [n |-> n, d |-> d, slash |-> TRUE]

RECURSIVE SumTokens(_)
SumTokens(toks) ==
    IF toks = <<>> THEN Zero
    ELSE RAdd(SumTokens(Tail(toks)), Rat(Head(toks).n, Head(toks).d))

\* Lines 69-72 and 92-95: the float of a quantity answer, or the exception
ParseQty(toks) ==
    IF \E i \in 1..Len(toks) : toks[i].slash
    THEN IF \E i \in 1..Len(toks) : toks[i].d = 0
         THEN [exc |-> "ZeroDivisionError", val |-> Zero]
         ELSE [exc |-> "", val |-> SumTokens(toks)]
    ELSE IF Len(toks) = 1
         THEN [exc |-> "", val |-> Rat(toks[1].n, toks[1].d)]
         ELSE [exc |-> "ValueError", val |-> Zero]

\* Line 90: float(input(...)) of the price answer
ParsePrice(toks) ==
    IF Len(toks) = 1 /\ ~toks[1].slash
    THEN [exc |-> "", val |-> Rat(toks[1].n, toks[1].d)]
    ELSE [exc |-> "ValueError", val |-> Zero]

MaxItems == 2

ConsentAnswers == {<<>>, <<"y">>, <<"Y", "e", "s">>, <<"n">>, <<" ", "y">>}
RecipeNames    == {<<"c", "a", "k", "e">>}
ItemNames      == {<<"F", "l", "o", "u", "r">>, <<"e", "g", "g", "s">>,
                   <<"d", "o", "n", "e">>, <<" ", "D", "o", "n", "e", " ">>}
QtyAnswers     == {<<Whole(3)>>, <<Whole(0)>>, <<Whole(1), Frac(1, 2)>>, <<Whole(1), Whole(2)>>}
ItemMeasures   == {"cups", "pounds", "each"}
PriceAnswers   == {<<Dec(219, 100)>>, <<Whole(0)>>, <<Frac(1, 2)>>}
BulkAnswers    == {<<Whole(5)>>, <<Whole(0)>>, <<Frac(1, 0)>>}
CostMeasures   == {"pounds", "cups", "each"}

done == <<"d", "o", "n", "e">>

(***************************************************************************)
(* The program                                                             *)
(***************************************************************************)
Ingredient(quantity, measure, thing) ==
    [quantity |-> quantity, measure |-> measure, thing |-> thing,
     cost |-> None, price |-> None]

Cost(money, quantity, measure) ==
    [money |-> money, quantity |-> quantity, measure |-> measure]

Init ==
    /\ phase = "consent"
    /\ exc = ""
    /\ good_to_go = None
    /\ asked = {}
    /\ name = None
    /\ ingredients = <<>>
    /\ idx = 1
    /\ bought = <<>>
    /\ output = <<>>
    /\ total = Zero
    /\ calls = 0
    /\ after_first = <<>>

\* read_recipe, lines 42-49: the consent prompt
Consent ==
    /\ phase = "consent"
    /\ \E answer \in ConsentAnswers :
         /\ good_to_go' = Some(answer)
         /\ asked' = asked \cup {"consent"}
         /\ IF answer = <<>>
            THEN phase' = "aborted" /\ exc' = "IndexError"
            ELSE IF answer[1] \in {"Y", "y"}
                 THEN phase' = "name" /\ exc' = exc
                 ELSE phase' = "exited" /\ exc' = exc
    /\ UNCHANGED <<name, ingredients, idx, bought, output, total,
                   calls, after_first>>

\* read_recipe, lines 59-63: the name of the recipe
ReadName ==
    /\ phase = "name"
    /\ \E answer \in RecipeNames : name' = Some(answer)
    /\ asked' = asked \cup {"name"}
    /\ phase' = "items"
    /\ UNCHANGED <<exc, good_to_go, ingredients, idx, bought, output,
                   total, calls, after_first>>

\* read_recipe, lines 65-77: one ingredient
ReadItem ==
    /\ phase = "items"
    /\ Len(ingredients) < MaxItems
    /\ \E item \in ItemNames, answer \in QtyAnswers, measure \in ItemMeasures :
         /\ Strip(Lower(item)) # done
         /\ LET qty == ParseQty(answer)
            IN  IF qty.exc # ""
                THEN /\ phase' = "aborted"
                     /\ exc' = qty.exc
                     /\ UNCHANGED ingredients
                ELSE /\ ingredients' =
                          Append(ingredients, Ingredient(qty.val, measure, item))
                     /\ UNCHANGED <<phase, exc>>
    /\ asked' = asked \cup {"item"}
    /\ UNCHANGED <<good_to_go, name, idx, bought, output, total,
                   calls, after_first>>

\* read_recipe, lines 65-67 and 78-80, and add_costs, lines 83-88:
\* "done" ends the list of ingredients
ReadDone ==
    /\ phase = "items"
    /\ \E item \in ItemNames : Strip(Lower(item)) = done
    /\ asked' = asked \cup {"item"}
    /\ phase' = IF ingredients = <<>> THEN "calc" ELSE "costs"
    /\ idx' = 1
    /\ calls' = IF ingredients = <<>> THEN 1 ELSE calls
    /\ UNCHANGED <<exc, good_to_go, name, ingredients, bought, output,
                   total, after_first>>

\* add_costs, lines 89-99: the cost of one ingredient
AddCost ==
    /\ phase = "costs"
    /\ idx <= Len(ingredients)
    /\ \E answer \in PriceAnswers, bulk \in BulkAnswers, measure \in CostMeasures :
         LET price == ParsePrice(answer)
             qty   == ParseQty(bulk)
             bad   == IF price.exc # "" THEN price.exc ELSE qty.exc
         IN  IF bad # ""
             THEN /\ phase' = "aborted"
                  /\ exc' = bad
                  /\ UNCHANGED <<ingredients, bought, idx, calls>>
             ELSE /\ ingredients' = [ingredients EXCEPT ![idx].cost =
                                        Some(Cost(price.val, qty.val, measure))]
                  /\ bought' = Append(bought, Cost(price.val, qty.val, measure))
                  /\ phase' = IF idx = Len(ingredients) THEN "calc" ELSE "costs"
                  /\ idx' = IF idx = Len(ingredients) THEN 1 ELSE idx + 1
                  /\ calls' = IF idx = Len(ingredients) THEN calls + 1 ELSE calls
                  /\ exc' = exc
    /\ asked' = asked \cup {"cost"}
    /\ UNCHANGED <<good_to_go, name, output, total, after_first>>

\* calculate_recipe_prices, lines 149-158: one iteration of the loop
Calculate ==
    /\ phase = "calc"
    /\ idx <= Len(ingredients)
    /\ LET item == ingredients[idx]
           res  == Iteration(item)
       IN  /\ ingredients' = [ingredients EXCEPT ![idx] = res.item]
           /\ IF res.exc # ""
              THEN phase' = "aborted" /\ exc' = res.exc /\ idx' = idx
              ELSE phase' = phase /\ exc' = exc /\ idx' = idx + 1
    /\ UNCHANGED <<good_to_go, asked, name, bought, output, total, calls,
                   after_first>>

\* print_recipe_costs, lines 161-170: one line for each ingredient, then the
\* total (the heading line is left out)
PrintRecipeCosts ==
    /\ phase = "calc"
    /\ idx > Len(ingredients)
    /\ calls = 1
    /\ output' = Append([i \in 1..Len(ingredients) |-> Line(ingredients[i])],
                         [kind |-> "total", thing |-> <<>>,
                          cents |-> Cents(Total(ingredients))])
    /\ total' = Total(ingredients)
    /\ phase' = "done"
    /\ UNCHANGED <<exc, good_to_go, asked, name, ingredients, idx,
                   bought, calls, after_first>>

Next ==
    \/ Consent
    \/ ReadName
    \/ ReadItem
    \/ ReadDone
    \/ AddCost
    \/ Calculate
    \/ PrintRecipeCosts

Spec == Init /\ [][Next]_vars


(***************************************************************************)
(* calculate_recipe_prices as a function of a recipe: the recipes it is    *)
(* applied to are drawn from the answers the interview accepts, and it is  *)
(* applied a second time to the recipe the first application left          *)
(***************************************************************************)
NameSamples ==
    {<<"F", "l", "o", "u", "r">>,
     <<" ", "f", "l", "o", "u", "r", " ">>,
     <<"F", "L", "O", "U", "R">>,
     <<"r", "y", "e", " ", "f", "l", "o", "u", "r">>,
     <<"s", "u", "g", "a", "r", " ", "f", "l", "o", "u", "r">>,
     <<"b", "u", "t", "t", "e", "r">>,
     <<" ", "B", "u", "t", "t", "e", "r", " ">>,
     <<"p", "e", "a", "n", "u", "t", " ", "b", "u", "t", "t", "e", "r">>,
     <<"B", "r", "o", "w", "n", " ", "S", "u", "g", "a", "r">>,
     <<"b", "r", "o", "w", "n", " ", "s", "u", "g", "a", "r">>,
     <<"b", "r", "o", "w", "n", " ", "s", "u", "g", "a", "r", " ", "c", "o", "c", "o", "a">>,
     <<"s", "u", "g", "a", "r">>,
     <<"C", "a", "n", "e", " ", "S", "u", "g", "a", "r">>,
     <<"c", "o", "c", "o", "a">>,
     <<"C", "o", "c", "o", "a", " ", "B", "u", "t", "t", "e", "r">>,
     <<"e", "g", "g", "s">>}

\* One ingredient with its cost attached, as add_costs leaves it
Priced(thing, quantity, measure, money, bulk, bulkMeasure) ==
    [Ingredient(quantity, measure, thing) EXCEPT
        !.cost = Some(Cost(money, bulk, bulkMeasure))]

\* Many names, units of the vocabulary
SampleIngredients ==
    { Priced(thing, Rat(q, 1), measure, Rat(219, 100), Rat(5, 1), bulkMeasure) :
        thing \in NameSamples, q \in {1, 3},
        measure \in {"cups", "tablespoons", "pounds", "count"},
        bulkMeasure \in {"pounds", "ounces", "cups"} }

\* One name, every kind of unit, a bulk quantity of zero
ListIngredients ==
    { Priced(<<"F", "l", "o", "u", "r">>, Rat(3, 1), measure, Rat(219, 100),
             Rat(bulk, 1), bulkMeasure) :
        measure \in {"cups", "pounds", "count", "each"}, bulk \in {0, 5},
        bulkMeasure \in {"ounces", "cups", "count", "each"} }

RECURSIVE Lists(_, _)
Lists(S, n) ==
    IF n = 0 THEN {<<>>}
    ELSE LET shorter == Lists(S, n - 1)
         IN  shorter \cup {Append(l, x) : l \in {m \in shorter : Len(m) = n - 1}, x \in S}

InitCalc ==
    /\ phase = "calc"
    /\ exc = ""
    /\ good_to_go = Some(<<"y">>)
    /\ asked = {"consent", "name", "item", "cost"}
    /\ name \in {Some(n) : n \in RecipeNames}
    /\ \/ ingredients \in {<<x>> : x \in SampleIngredients}
       \/ ingredients \in Lists(ListIngredients, MaxItems)
    /\ idx = 1
    /\ bought = [i \in 1..Len(ingredients) |-> ingredients[i].cost[1]]
    /\ output = <<>>
    /\ total = Zero
    /\ calls = 1
    /\ after_first = <<>>

\* A second call of calculate_recipe_prices on the recipe, after the first
\* returned or raised
Recalculate ==
    /\ calls = 1
    /\ \/ phase = "calc" /\ idx > Len(ingredients)
       \/ phase = "aborted"
    /\ calls' = 2
    /\ after_first' = ingredients
    /\ phase' = "calc"
    /\ exc' = ""
    /\ idx' = 1
    /\ UNCHANGED <<good_to_go, asked, name, ingredients, bought,
                   output, total>>

NextCalc ==
    \/ Calculate
    \/ Recalculate

SpecCalc == InitCalc /\ [][NextCalc]_vars


(***************************************************************************)
(* The properties                                                          *)
(***************************************************************************)
\* The ingredients a cost has been entered for
Costed == 1..Len(bought)

Known(i)     == ingredients[i].measure \in Vocabulary /\ bought[i].measure \in Vocabulary
UsedDim(i)   == Dimensionality(ingredients[i].measure)
BoughtDim(i) == Dimensionality(bought[i].measure)

\* The bulk purchase can be expressed in the usage unit: directly, or through
\* the density heuristic (bought by mass, used by volume)
Convertible(i) ==
    Known(i) /\ (BoughtDim(i) = UsedDim(i)
                   \/ (BoughtDim(i) = "mass" /\ UsedDim(i) = "volume"))
Incompatible(i) == Known(i) /\ ~Convertible(i)

\* calculate_recipe_prices has been called and has returned or raised
CalcOver ==
    /\ calls >= 1
    /\ \/ phase \in {"done", "aborted"}
       \/ phase = "calc" /\ idx > Len(ingredients)

\* The ordered rule table of the density heuristic, first match wins
Rules ==
    << [kind |-> "contains", word |-> flour,      rate |-> Rat(333, 100)],
       [kind |-> "equals",   word |-> butter,     rate |-> Rat(2, 1)],
       [kind |-> "contains", word |-> brownsugar, rate |-> Rat(225, 100)],
       [kind |-> "contains", word |-> sugar,      rate |-> Rat(2, 1)],
       [kind |-> "contains", word |-> cocoa,      rate |-> Rat(355, 100)] >>

Matches(rule, normalized) ==
    IF rule.kind = "equals" THEN normalized = rule.word
    ELSE Contains(rule.word, normalized)

FirstMatchRate(normalized) ==
    IF \E k \in 1..Len(Rules) : Matches(Rules[k], normalized)
    THEN Rules[CHOOSE k \in 1..Len(Rules) :
                   /\ Matches(Rules[k], normalized)
                   /\ \A j \in 1..(k - 1) : ~Matches(Rules[j], normalized)].rate
    ELSE Rat(2, 1)

\* The bulk purchase of ingredient i in cups, by the density heuristic
BulkInCups(i) ==
    RMul(Convert(bought[i].quantity, bought[i].measure, "pounds"),
         FirstMatchRate(Strip(Lower(ingredients[i].thing))))

\* C1: once calculate_recipe_prices is over, an ingredient whose units have
\* incompatible dimensions has no price, and every other ingredient of the
\* recipe whose units are convertible has one.
C1_MismatchLeavesOthersPriced ==
    CalcOver =>
        \A i \in Costed :
            Incompatible(i) =>
                /\ ingredients[i].price = None
                /\ \A j \in Costed \ {i} :
                       Convertible(j) => ingredients[j].price # None

\* C2: an ingredient with a unit outside the vocabulary does not abort
\* calculate_recipe_prices (the loop never stops at it with an exception),
\* and it is left without a price.
C2_UnknownUnitDoesNotAbort ==
    calls >= 1 =>
        \A i \in Costed :
            ~Known(i) =>
                /\ ~(phase = "aborted" /\ idx = i)
                /\ ingredients[i].price = None

\* C3: once calculate_recipe_prices is over, every ingredient bought and used
\* in units of one dimension (and a bulk quantity that is not zero) has
\* price = cost.money * quantity / convert(cost.quantity, cost.measure, measure).
C3_SameDimensionPrice ==
    CalcOver =>
        \A i \in Costed :
            (Known(i) /\ BoughtDim(i) = UsedDim(i) /\ ~IsZero(bought[i].quantity)) =>
                ingredients[i].price =
                    Some(RDiv(RMul(bought[i].money, ingredients[i].quantity),
                              Convert(bought[i].quantity, bought[i].measure,
                                      ingredients[i].measure)))

\* C4: once calculate_recipe_prices is over, every ingredient bought in a
\* mass unit and used in a volume unit (and a bulk quantity that is not
\* zero) has its Cost rewritten to cups, quantity = pounds * rate, and
\* price = cost.money * quantity / convert(cups, "cups", measure).
C4_MassToVolumePrice ==
    CalcOver =>
        \A i \in Costed :
            (Known(i) /\ BoughtDim(i) = "mass" /\ UsedDim(i) = "volume"
                /\ ~IsZero(bought[i].quantity)) =>
                /\ ingredients[i].cost =
                       Some(Cost(bought[i].money, BulkInCups(i), "cups"))
                /\ ingredients[i].price =
                       Some(RDiv(RMul(bought[i].money, ingredients[i].quantity),
                                 Convert(BulkInCups(i), "cups", ingredients[i].measure)))

\* C5: a Cost the density heuristic has rewritten holds the bulk quantity in
\* pounds times the rate of the first rule of the table that the lower-cased,
\* trimmed name matches (2 when none does): 3.33 for "Flour", " flour " and
\* "FLOUR", 2.25 for "brown sugar".
C5_RateOfFirstMatchingRule ==
    \A i \in Costed :
        ingredients[i].cost # Some(bought[i]) =>
            LET pounds == Convert(bought[i].quantity, bought[i].measure, "pounds")
                thing  == ingredients[i].thing
                cups   == ingredients[i].cost[1].quantity
            IN  /\ cups = BulkInCups(i)
                /\ thing \in {<<"F", "l", "o", "u", "r">>,
                              <<" ", "f", "l", "o", "u", "r", " ">>,
                              <<"F", "L", "O", "U", "R">>}
                     => cups = RMul(pounds, Rat(333, 100))
                /\ Strip(Lower(thing)) = brownsugar
                     => cups = RMul(pounds, Rat(225, 100))

\* A Cost of "Brown Sugar" has been rewritten
C5_Witness ==
    \E i \in Costed :
        /\ ingredients[i].cost # Some(bought[i])
        /\ ingredients[i].thing = <<"B", "r", "o", "w", "n", " ", "S", "u", "g", "a", "r">>
        /\ ingredients[i].cost[1].quantity = Rat(45, 4)

\* C6 as amended: the money of a Cost never changes, and a Cost differs from
\* the one entered only if it was bought in a mass unit and is used in a unit
\* of the vocabulary that is not a mass unit (a volume, but also a count).
C6_RewrittenOnlyIfMassBoughtAndNotMassUsed ==
    \A i \in Costed :
        /\ ingredients[i].cost[1].money = bought[i].money
        /\ ingredients[i].cost # Some(bought[i]) =>
              /\ Known(i)
              /\ BoughtDim(i) = "mass"
              /\ UsedDim(i) # "mass"

\* calculate_recipe_prices has returned on a recipe with a Cost bought by
\* mass for a count usage, rewritten, and one bought and used by mass, kept
C6_Witness ==
    /\ phase = "calc" /\ idx > Len(ingredients) /\ calls = 1
    /\ \E i, j \in Costed :
          /\ Known(i) /\ BoughtDim(i) = "mass" /\ UsedDim(i) = "count"
          /\ ingredients[i].cost # Some(bought[i])
          /\ Known(j) /\ BoughtDim(j) = "mass" /\ UsedDim(j) = "mass"
          /\ ingredients[j].cost = Some(bought[j])
          /\ ingredients[j].price # None

\* C6 as claimed: a Cost differs from the one entered only if it was bought
\* in a mass unit and is used in a volume unit.
C6_RewrittenOnlyIfMassBoughtAndVolumeUsed ==
    \A i \in Costed :
        /\ ingredients[i].cost[1].money = bought[i].money
        /\ ingredients[i].cost # Some(bought[i]) =>
              /\ Known(i)
              /\ BoughtDim(i) = "mass"
              /\ UsedDim(i) = "volume"

\* C7: in the report, an ingredient is listed without a price exactly when
\* apportionment set no price for it.
C7_UnpricedLineIffNoPrice ==
    phase = "done" =>
        \A i \in 1..Len(ingredients) :
            output[i].kind = "noprice" <=> ingredients[i].price = None

\* C8: every quantity held in the recipe is strictly positive, every money
\* amount is not negative, and apportionment never divides by zero.
C8_QuantitiesPositive ==
    /\ \A i \in 1..Len(ingredients) :
          /\ RLess(Zero, ingredients[i].quantity)
          /\ ingredients[i].cost # None =>
                /\ RLess(Zero, ingredients[i].cost[1].quantity)
                /\ ~RLess(ingredients[i].cost[1].money, Zero)
    /\ ~(calls >= 1 /\ exc = "ZeroDivisionError")

\* C9: after an answer to the consent prompt that does not begin with Y or y
\* the process has exited with status 0 (no exception), nothing else was
\* asked and no report was printed.
C9_DeclineExitsCleanly ==
    (good_to_go # None /\ (good_to_go[1] = <<>> \/ good_to_go[1][1] \notin {"Y", "y"})) =>
        /\ phase = "exited"
        /\ exc = ""
        /\ asked = {"consent"}
        /\ ingredients = <<>>
        /\ output = <<>>

\* C10: during and after a second call of calculate_recipe_prices the recipe
\* is as the first call left it, and no Cost that was rewritten satisfies the
\* condition of the heuristic again.
C10_SecondCallChangesNothing ==
    /\ calls = 2 => ingredients = after_first
    /\ \A i \in Costed :
          ingredients[i].cost # Some(bought[i]) => SpecialCase(ingredients[i]) = "no"

\* The second call has returned on a recipe of several ingredients, one with
\* a rewritten Cost and a price
C10_Witness ==
    /\ calls = 2 /\ phase = "calc" /\ idx > Len(ingredients)
    /\ Len(ingredients) >= 2
    /\ \E i \in Costed :
          /\ ingredients[i].cost # Some(bought[i])
          /\ ingredients[i].price # None

\* C1, C3 and C4 on the calls that return: when calculate_recipe_prices
\* raises no exception, the three statements hold of the recipe it leaves.
ReturnedCallsPriceAsClaimed ==
    (CalcOver /\ phase # "aborted") =>
        /\ C1_MismatchLeavesOthersPriced
        /\ C3_SameDimensionPrice
        /\ C4_MassToVolumePrice

=============================================================================
